---- MODULE Spec2Model ----
(***************************************************************************)
(* Model of src/app.py: the Flask handler run_code (POST /run), which      *)
(* stages the submitted code in a temporary directory, runs it in a docker *)
(* container under two timeouts, normalises the outcome and removes the    *)
(* temporary files.  Several requests are handled concurrently, one per    *)
(* worker.  The container engine and the sandboxed program are the         *)
(* environment: their steps are separate actions with no fairness.         *)
(***************************************************************************)
EXTENDS Integers, Sequences, FiniteSets, TLC

(* ---------------------------------------------------------------- bounds *)
NumSuffixes == 2

(* ------------------------------------------------------ program constants *)
MAX_CHARS == 5000
TIMEOUT_SECONDS == 10
MAX_OUTPUT == 10000
OUTER_MARGIN == 2
TIMEOUT_EXIT == 124

DOCKER_IMAGE == "python:3.11-slim"
MEMORY_LIMIT == "128m"
READ_ONLY == TRUE
TruncationMarker == "\n... (truncated)\n"
TimeoutText == "Command terminated"

(* Two workers, each handling one call: the concurrent claims are about    *)
(* pairs of calls.                                                         *)
Procs == {1, 2}

(* ------------------------------------------------------------- strings *)
RECURSIVE Rep(_, _)
Rep(c, n) ==
  IF n = 0 THEN ""
  ELSE IF n % 2 = 1 THEN c \o Rep(c, n - 1)
  ELSE LET h == Rep(c, n \div 2) IN h \o h

(* Python's  sub in s  *)
Contains(s, sub) ==
  \E i \in 1 .. (Len(s) - Len(sub) + 1) : SubSeq(s, i, i + Len(sub) - 1) = sub

(* Python's  s[:n]  for n >= 0 *)
Prefix(s, n) == IF Len(s) <= n THEN s ELSE SubSeq(s, 1, n)

Digit(d) == SubSeq("0123456789", d + 1, d + 1)

(* Python's  str(n)  for n >= 0 *)
RECURSIVE IntToStr(_)
IntToStr(n) == IF n < 10 THEN Digit(n) ELSE IntToStr(n \div 10) \o Digit(n % 10)

(* ------------------------------------------------------------ requests *)
(* The JSON body of a request: the "code" key is absent, holds a value     *)
(* that is no string, or holds a string.                                   *)
Requests ==
  { [kind |-> "missing", text |-> ""],
    [kind |-> "number", text |-> ""],
    [kind |-> "str", text |-> ""],
    [kind |-> "str", text |-> "print('hi')"],
    [kind |-> "str", text |-> "raise ValueError('x')"],
    [kind |-> "str", text |-> Rep("x", MAX_CHARS + 1)] }

(* data.get("code", "") *)
CodeOf(r) ==
  IF r.kind = "missing" THEN [isStr |-> TRUE, text |-> ""]
  ELSE [isStr |-> (r.kind = "str"), text |-> r.text]

(* Variant: the length check is missing. *)
ValidateNoLength(c) ==
  IF ~c.isStr THEN "Field 'code' must be a string."
  ELSE IF Len(c.text) = 0 THEN "No code provided."
  ELSE ""

(* The three checks of run_code; "" when the request passes them all. *)
Validate(c) ==
  IF ~c.isStr THEN "Field 'code' must be a string."
  ELSE IF Len(c.text) = 0 THEN "No code provided."
  ELSE IF Len(c.text) > MAX_CHARS
    THEN "Code too long. Max " \o IntToStr(MAX_CHARS) \o " characters allowed."
  ELSE ""

(* ----------------------------------------------------------- responses *)
NoResp ==
  [status |-> 0, kind |-> "none", error |-> "", stdout |-> "", stderr |-> "",
   exit_code |-> 0]

(* jsonify({"error": msg}), status *)
ErrorResp(msg, status) ==
  [status |-> status, kind |-> "error", error |-> msg, stdout |-> "",
   stderr |-> "", exit_code |-> 0]

(* jsonify({"stdout": .., "stderr": .., "exit_code": ..}), 200 *)
ResultResp(out, err, rc) ==
  [status |-> 200, kind |-> "result", error |-> "", stdout |-> out,
   stderr |-> err, exit_code |-> rc]

(* An exception that leaves run_code: the framework answers 500. *)
ExceptionResp ==
  [status |-> 500, kind |-> "exception", error |-> "", stdout |-> "",
   stderr |-> "", exit_code |-> 0]

(* Variant: the message cites the outer timeout. *)
TimeoutMessageOuter ==
  "Execution timed out after " \o IntToStr(TIMEOUT_SECONDS + OUTER_MARGIN)
    \o " seconds."

(* f"Execution timed out after {TIMEOUT_SECONDS} seconds." *)
TimeoutMessage ==
  "Execution timed out after " \o IntToStr(TIMEOUT_SECONDS) \o " seconds."

(* ----------------------------------------------------------- workspace *)
RunIds == {"0a1b2c3d"}
Suffixes == { Rep("k", i) : i \in 1 .. NumSuffixes }

(* tempfile.mkdtemp(prefix=f"exec_{run_id}_") *)
DirName(rid, sfx) == "exec_" \o rid \o "_" \o sfx
Paths == { DirName(rid, sfx) : rid \in RunIds, sfx \in Suffixes }
NoPath == ""

(* os.path.join(workdir, "script.py") *)
ScriptPath(workdir) == workdir \o "/script.py"

(* ------------------------------------------------------ docker command *)
(* The two -v arguments: the script read-only, the workdir writable. *)
Mounts(workdir) ==
  << [src |-> ScriptPath(workdir), dst |-> "/app/script.py", ro |-> TRUE],
     [src |-> workdir, dst |-> "/app/writable", ro |-> FALSE] >>

MountArg(m) == m.src \o ":" \o m.dst \o (IF m.ro THEN ":ro" ELSE "")

DockerCmd(workdir) ==
  << "docker", "run", "--rm",
     "--network", "none",
     "--memory", MEMORY_LIMIT,
     "--pids-limit", "64",
     "--cpus", "0.5" >>
  \o (IF READ_ONLY THEN << "--read-only" >> ELSE << >>)
  \o << "-v", MountArg(Mounts(workdir)[1]),
        "-v", MountArg(Mounts(workdir)[2]) >>
  \o << DOCKER_IMAGE, "timeout", IntToStr(TIMEOUT_SECONDS), "python", "-u",
        "/app/script.py" >>

(* Variant: the outer timeout without its margin. *)
OuterTimeoutNoMargin == TIMEOUT_SECONDS

(* subprocess.run(..., timeout=TIMEOUT_SECONDS + 2) *)
OuterTimeoutSeconds == TIMEOUT_SECONDS + OUTER_MARGIN

NoLaunch == [cmd |-> << >>, timeout |-> 0]

(* ------------------------------------------------------------ outcomes *)
(* What subprocess.run can hand back: the exit status and the two streams  *)
(* of the docker client.                                                   *)
NoRaw == [rc |-> 0, stdout |-> "", stderr |-> ""]

(* The sandboxed program ends on its own. *)
ProgramExits ==
  { [rc |-> 0, stdout |-> "hi\n", stderr |-> ""],
    [rc |-> 1, stdout |-> "", stderr |-> "ValueError: x"],
    [rc |-> TIMEOUT_EXIT, stdout |-> "", stderr |-> ""],
    [rc |-> 1, stdout |-> "", stderr |-> "Exception: " \o TimeoutText],
    [rc |-> 0, stdout |-> Rep("o", MAX_OUTPUT + 1), stderr |-> "warn"],
    [rc |-> 1, stdout |-> Rep("o", MAX_OUTPUT), stderr |-> Rep("e", MAX_OUTPUT + 2)] }

(* The in-container  timeout  wrapper ends the program. *)
InnerTimeouts ==
  { [rc |-> TIMEOUT_EXIT, stdout |-> "", stderr |-> ""] }

(* The docker client reports that the engine could not start the container *)
(* (daemon down, image missing): its own exit status and message.          *)
EngineErrors ==
  { [rc |-> 125, stdout |-> "",
     stderr |-> "docker: Error response from daemon: pull access denied."] }

(* --------------------------------------------------------------- state *)
VARIABLES
  pc,          \* where each worker is in run_code
  req,         \* the request body the worker handles
  workdir,     \* the worker's temporary directory (NoPath before mkdtemp)
  dirs,        \* the temporary directories that exist on disk
  script,      \* per directory: whether script.py exists, and its text
  junk,        \* the directories that hold a file other than script.py
  launched,    \* the command and timeout given to subprocess.run
  client,      \* the docker client process: none, running, exited, killed
  container,   \* the sandbox container: none, running, exited
  ranSource,   \* the text the container's interpreter was started on
  raw,         \* what subprocess.run returned
  cause,       \* why the client exited: program, inner_timeout, engine_error
  resp,        \* the response returned to the caller
  released,    \* whether the worker's cleanup removed its directory
  nWorkdirs,   \* directories created by the worker
  nLaunches,   \* subprocess.run calls made by the worker
  nResponses   \* responses returned by the worker

vars ==
  << pc, req, workdir, dirs, script, junk, launched, client, container,
     ranSource, raw, cause, resp, released, nWorkdirs, nLaunches,
     nResponses >>

NoScript == [exists |-> FALSE, text |-> ""]
NoRequest == [kind |-> "none", text |-> ""]

Init ==
  /\ pc = [p \in Procs |-> "idle"]
  /\ req = [p \in Procs |-> NoRequest]
  /\ workdir = [p \in Procs |-> NoPath]
  /\ dirs = {}
  /\ script = [d \in Paths |-> NoScript]
  /\ junk = {}
  /\ launched = [p \in Procs |-> NoLaunch]
  /\ client = [p \in Procs |-> "none"]
  /\ container = [p \in Procs |-> "none"]
  /\ ranSource = [p \in Procs |-> ""]
  /\ raw = [p \in Procs |-> NoRaw]
  /\ cause = [p \in Procs |-> "none"]
  /\ resp = [p \in Procs |-> NoResp]
  /\ released = [p \in Procs |-> FALSE]
  /\ nWorkdirs = [p \in Procs |-> 0]
  /\ nLaunches = [p \in Procs |-> 0]
  /\ nResponses = [p \in Procs |-> 0]

(* ------------------------------------------------------- normalisation *)
(* Variant: only the exit status is tested. *)
IsTimeoutRcOnly(r) == r.rc = TIMEOUT_EXIT

(* return_code == 124 or "Command terminated" in stderr *)
IsTimeoutOutcome(r) == r.rc = TIMEOUT_EXIT \/ Contains(r.stderr, TimeoutText)

(* The same test, computed once for each outcome the client can produce. *)
Outcomes == ProgramExits \cup InnerTimeouts \cup EngineErrors
TimeoutTable == [o \in Outcomes |-> IsTimeoutOutcome(o)]
IsTimeout(r) == TimeoutTable[r]

(* Variant: the cut keeps one character too many. *)
TruncateOffByOne(s) ==
  IF Len(s) > MAX_OUTPUT THEN Prefix(s, MAX_OUTPUT + 1) \o TruncationMarker
  ELSE s

(* s[:MAX_OUTPUT] + "\n... (truncated)\n"  when len(s) > MAX_OUTPUT *)
Truncate(s) ==
  IF Len(s) > MAX_OUTPUT THEN Prefix(s, MAX_OUTPUT) \o TruncationMarker ELSE s

(* Variant: the length of stdout decides the cut of both streams. *)
CappedTogether(out, err) ==
  IF Len(out) > MAX_OUTPUT
  THEN [stdout |-> Prefix(out, MAX_OUTPUT) \o TruncationMarker,
        stderr |-> Prefix(err, MAX_OUTPUT) \o TruncationMarker]
  ELSE [stdout |-> out, stderr |-> err]

(* The two caps, one per stream. *)
Capped(out, err) == [stdout |-> Truncate(out), stderr |-> Truncate(err)]

(* The response for a completed subprocess.run. *)
Normalize(r) ==
  IF IsTimeout(r) THEN ErrorResp(TimeoutMessage, 200)
  ELSE LET c == Capped(r.stdout, r.stderr)
       IN ResultResp(c.stdout, c.stderr, r.rc)

(* ------------------------------------------------------------- cleanup *)
(* try: os.remove(script_path); os.rmdir(workdir)  except Exception: pass  *)
(* os.remove raises when the file is gone, and os.rmdir is then skipped;   *)
(* os.rmdir raises when the directory is not empty.                        *)
RemoveSucceeds(d) == d \in dirs /\ script[d].exists
RmdirSucceeds(d) == RemoveSucceeds(d) /\ d \notin junk

ScriptAfterCleanup(d) ==
  IF RemoveSucceeds(d) THEN [script EXCEPT ![d] = NoScript] ELSE script
DirsAfterCleanup(d) ==
  IF RmdirSucceeds(d) THEN dirs \ {d} ELSE dirs

(* -------------------------------------------------------- control flow *)
(* Variant: the handler launches again after the outer timeout. *)
PcAfterRetry(step) ==
  CASE step = "mkdtemp" -> "created"
    [] step = "write" -> "written"
    [] step = "launch" -> "waiting"
    [] step = "exit" -> "completed"
    [] step = "outer_timeout" -> "written"
    [] OTHER -> "done"

(* Variant: the command is run before the script is written. *)
PcAfterSkipWrite(step) ==
  CASE step = "mkdtemp" -> "written"
    [] step = "write" -> "written"
    [] step = "launch" -> "waiting"
    [] step = "exit" -> "completed"
    [] OTHER -> "done"

(* Where run_code goes after each step; every return ends the call. *)
PcAfter(step) ==
  CASE step = "mkdtemp" -> "created"
    [] step = "write" -> "written"
    [] step = "launch" -> "waiting"
    [] step = "exit" -> "completed"
    [] OTHER -> "done"

(* Variant: the directory is made without the exclusive create. *)
AnyName(d) == TRUE

(* mkdtemp creates the directory exclusively: a name in use is never taken. *)
FreshName(d) == d \notin dirs

(* Variant: subprocess.run is called without a timeout. *)
OuterTimerNone(p) == FALSE

(* subprocess.run's timeout: the timer can fire while the client runs. *)
OuterTimerArmed(p) == client[p] = "running" /\ launched[p].timeout > 0

Bump(f, p) == [f EXCEPT ![p] = @ + 1]

(* Variant: the memory ceiling is taken from the size of the submitted code. *)
LaunchSpecByCode(p) ==
  [cmd |-> [i \in 1 .. Len(DockerCmd(workdir[p])) |->
              IF i > 1 /\ DockerCmd(workdir[p])[i - 1] = "--memory"
              THEN IntToStr(Len(CodeOf(req[p]).text)) \o "m"
              ELSE DockerCmd(workdir[p])[i]],
   timeout |-> OuterTimeoutSeconds]

(* What subprocess.run is called with: docker_cmd and the outer timeout. *)
LaunchSpec(p) ==
  [cmd |-> DockerCmd(workdir[p]), timeout |-> OuterTimeoutSeconds]

(* Variant: an exception of the cleanup leaves run_code. *)
RespCleanupPropagates(p) ==
  IF RmdirSucceeds(workdir[p]) THEN Normalize(raw[p]) ELSE ExceptionResp

(* resp is composed before the cleanup, and  except Exception: pass  keeps *)
(* a failing os.remove or os.rmdir from reaching it.                       *)
RespAfterCleanup(p) == Normalize(raw[p])

(* ------------------------------------------------- the worker's steps *)
(* One of the three checks fails: 400, nothing else happens. *)
Reject(p, r) ==
  /\ pc[p] = "idle"
  /\ Validate(CodeOf(r)) # ""
  /\ req' = [req EXCEPT ![p] = r]
  /\ resp' = [resp EXCEPT ![p] = ErrorResp(Validate(CodeOf(r)), 400)]
  /\ nResponses' = Bump(nResponses, p)
  /\ pc' = [pc EXCEPT ![p] = PcAfter("reject")]
  /\ UNCHANGED << released, workdir, dirs, script, junk, launched, client, container,
                  ranSource, raw, cause, nWorkdirs, nLaunches >>

(* The checks pass; uuid4()[:8] and mkdtemp name and create the directory. *)
Mkdtemp(p, r, rid, sfx) ==
  /\ pc[p] = "idle"
  /\ Validate(CodeOf(r)) = ""
  /\ FreshName(DirName(rid, sfx))
  /\ req' = [req EXCEPT ![p] = r]
  /\ dirs' = dirs \cup {DirName(rid, sfx)}
  /\ workdir' = [workdir EXCEPT ![p] = DirName(rid, sfx)]
  /\ nWorkdirs' = Bump(nWorkdirs, p)
  /\ pc' = [pc EXCEPT ![p] = PcAfter("mkdtemp")]
  /\ UNCHANGED << released, script, junk, launched, client, container, ranSource, raw,
                  cause, resp, nResponses, nLaunches >>

(* The checks pass and mkdtemp raises OSError: the exception leaves run_code. *)
MkdtempFail(p, r) ==
  /\ pc[p] = "idle"
  /\ Validate(CodeOf(r)) = ""
  /\ req' = [req EXCEPT ![p] = r]
  /\ resp' = [resp EXCEPT ![p] = ExceptionResp]
  /\ nResponses' = Bump(nResponses, p)
  /\ pc' = [pc EXCEPT ![p] = PcAfter("raise")]
  /\ UNCHANGED << released, workdir, dirs, script, junk, launched, client, container,
                  ranSource, raw, cause, nWorkdirs, nLaunches >>

(* with open(script_path, "w") as f: f.write(code) *)
WriteScript(p) ==
  /\ pc[p] = "created"
  /\ script' = [script EXCEPT ![workdir[p]] =
                  [exists |-> TRUE, text |-> CodeOf(req[p]).text]]
  /\ pc' = [pc EXCEPT ![p] = PcAfter("write")]
  /\ UNCHANGED << released, req, workdir, dirs, junk, launched, client, container,
                  ranSource, raw, cause, resp, nWorkdirs, nLaunches,
                  nResponses >>

(* subprocess.run starts the docker client and waits for it. *)
Launch(p) ==
  /\ pc[p] = "written"
  /\ launched' = [launched EXCEPT ![p] = LaunchSpec(p)]
  /\ client' = [client EXCEPT ![p] = "running"]
  /\ nLaunches' = Bump(nLaunches, p)
  /\ pc' = [pc EXCEPT ![p] = PcAfter("launch")]
  /\ UNCHANGED << released, req, workdir, dirs, script, junk, container, ranSource,
                  raw, cause, resp, nWorkdirs, nResponses >>

(* subprocess.run cannot start the client (no docker binary): OSError,     *)
(* which run_code does not catch.                                          *)
LaunchFail(p) ==
  /\ pc[p] = "written"
  /\ launched' = [launched EXCEPT ![p] = LaunchSpec(p)]
  /\ nLaunches' = Bump(nLaunches, p)
  /\ cause' = [cause EXCEPT ![p] = "no_client"]
  /\ resp' = [resp EXCEPT ![p] = ExceptionResp]
  /\ nResponses' = Bump(nResponses, p)
  /\ pc' = [pc EXCEPT ![p] = PcAfter("raise")]
  /\ UNCHANGED << released, req, workdir, dirs, script, junk, client, container,
                  ranSource, raw, nWorkdirs >>

(* except subprocess.TimeoutExpired: subprocess.run has killed the client  *)
(* and reaped it; the handler returns the timeout message.  Nothing stops  *)
(* the container and nothing removes the directory.                        *)
OuterTimeout(p) ==
  /\ pc[p] = "waiting"
  /\ OuterTimerArmed(p)
  /\ client' = [client EXCEPT ![p] = "killed"]
  /\ cause' = [cause EXCEPT ![p] = "outer_timeout"]
  /\ resp' = [resp EXCEPT ![p] = ErrorResp(TimeoutMessage, 200)]
  /\ nResponses' = Bump(nResponses, p)
  /\ pc' = [pc EXCEPT ![p] = PcAfter("outer_timeout")]
  /\ UNCHANGED << released, req, workdir, dirs, script, junk, launched, container,
                  ranSource, raw, nWorkdirs, nLaunches >>

(* The client exited and the outcome is the timeout marker: return the     *)
(* timeout message, before the cleanup.                                    *)
ReturnInnerTimeout(p) ==
  /\ pc[p] = "completed"
  /\ IsTimeout(raw[p])
  /\ resp' = [resp EXCEPT ![p] = Normalize(raw[p])]
  /\ nResponses' = Bump(nResponses, p)
  /\ pc' = [pc EXCEPT ![p] = PcAfter("inner_timeout")]
  /\ UNCHANGED << released, req, workdir, dirs, script, junk, launched, client,
                  container, ranSource, raw, cause, nWorkdirs, nLaunches >>

(* The client exited otherwise: cap the streams, clean up, return them. *)
ReturnResult(p) ==
  /\ pc[p] = "completed"
  /\ ~IsTimeout(raw[p])
  /\ resp' = [resp EXCEPT ![p] = RespAfterCleanup(p)]
  /\ script' = ScriptAfterCleanup(workdir[p])
  /\ dirs' = DirsAfterCleanup(workdir[p])
  /\ released' = [released EXCEPT ![p] = RmdirSucceeds(workdir[p])]
  /\ nResponses' = Bump(nResponses, p)
  /\ pc' = [pc EXCEPT ![p] = PcAfter("return")]
  /\ UNCHANGED << req, workdir, junk, launched, client, container, ranSource,
                  raw, cause, nWorkdirs, nLaunches >>

(* -------------------------------------- the engine and the program *)
(* The engine starts the container; the interpreter reads the script      *)
(* through the read-only mount.                                           *)
ContainerStart(p) ==
  /\ client[p] = "running"
  /\ container[p] = "none"
  /\ container' = [container EXCEPT ![p] = "running"]
  /\ ranSource' = [ranSource EXCEPT ![p] = script[workdir[p]].text]
  /\ UNCHANGED << released, pc, req, workdir, dirs, script, junk, launched, client,
                  raw, cause, resp, nWorkdirs, nLaunches, nResponses >>

(* The engine cannot start the container; the client reports it and exits. *)
EngineError(p, o) ==
  /\ client[p] = "running"
  /\ container[p] = "none"
  /\ client' = [client EXCEPT ![p] = "exited"]
  /\ raw' = [raw EXCEPT ![p] = o]
  /\ cause' = [cause EXCEPT ![p] = "engine_error"]
  /\ pc' = [pc EXCEPT ![p] = PcAfter("exit")]
  /\ UNCHANGED << released, req, workdir, dirs, script, junk, launched, container,
                  ranSource, resp, nWorkdirs, nLaunches, nResponses >>

(* The mount through which the program can write into the directory. *)
WritableMount(p) ==
  \E i \in 1 .. Len(Mounts(workdir[p])) :
    /\ Mounts(workdir[p])[i].src = workdir[p]
    /\ ~Mounts(workdir[p])[i].ro

(* The running program creates a file in /app/writable, or unlinks         *)
(* /app/writable/script.py.                                                *)
ProgramWrite(p, eff) ==
  /\ container[p] = "running"
  /\ WritableMount(p)
  /\ workdir[p] \in dirs
  /\ \/ /\ eff = "create"
        /\ workdir[p] \notin junk
        /\ junk' = junk \cup {workdir[p]}
        /\ UNCHANGED script
     \/ /\ eff = "unlink"
        /\ script[workdir[p]].exists
        /\ script' = [script EXCEPT ![workdir[p]] = NoScript]
        /\ UNCHANGED junk
  /\ UNCHANGED << released, pc, req, workdir, dirs, launched, client, container,
                  ranSource, raw, cause, resp, nWorkdirs, nLaunches,
                  nResponses >>

(* The program ends on its own; --rm removes the container and the client  *)
(* exits with the program's status and streams.                            *)
ProgramExit(p, o) ==
  /\ client[p] = "running"
  /\ container[p] = "running"
  /\ container' = [container EXCEPT ![p] = "exited"]
  /\ client' = [client EXCEPT ![p] = "exited"]
  /\ raw' = [raw EXCEPT ![p] = o]
  /\ cause' = [cause EXCEPT ![p] = "program"]
  /\ pc' = [pc EXCEPT ![p] = PcAfter("exit")]
  /\ UNCHANGED << released, req, workdir, dirs, script, junk, launched, ranSource,
                  resp, nWorkdirs, nLaunches, nResponses >>

(* The in-container timeout wrapper ends the program after TIMEOUT_SECONDS. *)
InnerTimeout(p, o) ==
  /\ client[p] = "running"
  /\ container[p] = "running"
  /\ container' = [container EXCEPT ![p] = "exited"]
  /\ client' = [client EXCEPT ![p] = "exited"]
  /\ raw' = [raw EXCEPT ![p] = o]
  /\ cause' = [cause EXCEPT ![p] = "inner_timeout"]
  /\ pc' = [pc EXCEPT ![p] = PcAfter("exit")]
  /\ UNCHANGED << released, req, workdir, dirs, script, junk, launched, ranSource,
                  resp, nWorkdirs, nLaunches, nResponses >>

(* ------------------------------------------------------- specification *)
Next ==
  \/ \E p \in Procs, r \in Requests : Reject(p, r)
  \/ \E p \in Procs, r \in Requests, rid \in RunIds, sfx \in Suffixes :
       Mkdtemp(p, r, rid, sfx)
  \/ \E p \in Procs, r \in Requests : MkdtempFail(p, r)
  \/ \E p \in Procs : WriteScript(p)
  \/ \E p \in Procs : Launch(p)
  \/ \E p \in Procs : LaunchFail(p)
  \/ \E p \in Procs : OuterTimeout(p)
  \/ \E p \in Procs : ReturnInnerTimeout(p)
  \/ \E p \in Procs : ReturnResult(p)
  \/ \E p \in Procs : ContainerStart(p)
  \/ \E p \in Procs, o \in EngineErrors : EngineError(p, o)
  \/ \E p \in Procs, eff \in {"create", "unlink"} : ProgramWrite(p, eff)
  \/ \E p \in Procs, o \in ProgramExits : ProgramExit(p, o)
  \/ \E p \in Procs, o \in InnerTimeouts : InnerTimeout(p, o)

Spec == Init /\ [][Next]_vars

(* The steps run_code takes itself, the expiry of subprocess.run's timer   *)
(* among them; at most one worker position enables each.                   *)
HandlerStep(p) ==
  \/ WriteScript(p)
  \/ Launch(p)
  \/ LaunchFail(p)
  \/ OuterTimeout(p)
  \/ ReturnInnerTimeout(p)
  \/ ReturnResult(p)

(* A worker that can take a step of its own takes one; the timer of        *)
(* subprocess.run fires while the client runs.  The engine and the program *)
(* owe nothing.                                                            *)
Fairness == \A p \in Procs : WF_vars(HandlerStep(p))

FairSpec == Spec /\ Fairness

(* ---------------------------------------------------------- properties *)
Returned(p) == pc[p] = "done"
Accepted(p) == Validate(CodeOf(req[p])) = "" /\ req[p] # NoRequest
IsTimeoutResp(r) ==
  r.status = 200 /\ r.kind = "error" /\ r.error = TimeoutMessage

(* C1: for every accepted request, on every exit path of run_code, the     *)
(* workspace directory and the source file in it no longer exist on disk   *)
(* when run_code returns.                                                  *)
C1_WorkspaceGoneOnReturn ==
  \A p \in Procs :
    (Returned(p) /\ workdir[p] # NoPath /\ ~released[p]) =>
      (workdir[p] \notin dirs /\ ~script[workdir[p]].exists)

(* C2: in every state where run_code has returned, no sandbox container    *)
(* launched by that call is still running.                                 *)
C2_NoContainerAfterReturn ==
  \A p \in Procs : Returned(p) => container[p] # "running"

(* C3: every accepted request eventually gets its response, whatever the   *)
(* program or the engine does, an engine that never answers included.      *)
C3_AlwaysReturns ==
  \A p \in Procs :
    (pc[p] \in {"created", "written", "waiting", "completed"})
      ~> (Returned(p) /\ resp[p] # NoResp)

(* C3 witness: the engine never started the container nor answered, and    *)
(* the call has returned.                                                  *)
C3_Witness ==
  \E p \in Procs :
    /\ Returned(p)
    /\ cause[p] = "outer_timeout"
    /\ container[p] = "none"
    /\ IsTimeoutResp(resp[p])

(* C4: an accepted request that is answered with a result or a timeout has *)
(* created exactly one workspace, made exactly one sandbox invocation and  *)
(* returned exactly one response; no request, rejected or failed, ever     *)
(* has more than one of any of them.                                       *)
C4_ExactlyOnce ==
  \A p \in Procs :
    /\ nWorkdirs[p] <= 1 /\ nLaunches[p] <= 1 /\ nResponses[p] <= 1
    /\ (Returned(p) /\ Accepted(p) /\ resp[p].status = 200) =>
         (nWorkdirs[p] = 1 /\ nLaunches[p] = 1 /\ nResponses[p] = 1)
    /\ (Returned(p) /\ ~Accepted(p)) =>
         (nWorkdirs[p] = 0 /\ nLaunches[p] = 0 /\ nResponses[p] = 1)

(* C4 witness: one call answered after the outer timeout, one rejected.    *)
C4_Witness ==
  \E p, q \in Procs :
    /\ Returned(p) /\ cause[p] = "outer_timeout" /\ nLaunches[p] = 1
    /\ Returned(q) /\ ~Accepted(q) /\ nResponses[q] = 1

(* The workspace of p is in its lifetime: created, not yet removed.        *)
Live(p) == workdir[p] # NoPath /\ ~released[p]

(* C5: two calls whose workspace lifetimes overlap never use the same      *)
(* path; a live workspace is still on disk (no other call removed it);     *)
(* and the container of a call ran that call's own source.                 *)
C5_Isolation ==
  /\ \A p, q \in Procs :
       (p # q /\ Live(p) /\ Live(q)) => workdir[p] # workdir[q]
  /\ \A p \in Procs : Live(p) => workdir[p] \in dirs
  /\ \A p \in Procs :
       container[p] # "none" => ranSource[p] = CodeOf(req[p]).text

(* C5 witness: two calls with different sources both ran their container   *)
(* while both workspaces were live.                                        *)
C5_Witness ==
  \E p, q \in Procs :
    /\ p # q /\ Live(p) /\ Live(q)
    /\ container[p] = "running" /\ container[q] = "running"
    /\ req[p].text # req[q].text

(* Whether the marker text is in the stderr of an outcome. *)
MarkerInStderr == [o \in Outcomes |-> Contains(o.stderr, TimeoutText)]

(* subprocess.run was entered and the client was started. *)
Ran(p) == Returned(p) /\ client[p] \in {"exited", "killed"}

(* C6: a run is answered with the timeout message exactly when the outer   *)
(* timeout fired, the exit status is 124 or stderr holds "Command          *)
(* terminated"; otherwise the exit status and the two streams, each up to  *)
(* the output ceiling, are what the process produced.                      *)
C6_Classification ==
  \A p \in Procs :
    Ran(p) =>
      IF \/ cause[p] = "outer_timeout"
         \/ raw[p].rc = 124
         \/ MarkerInStderr[raw[p]]
      THEN IsTimeoutResp(resp[p])
      ELSE /\ resp[p].status = 200 /\ resp[p].kind = "result"
           /\ resp[p].exit_code = raw[p].rc
           /\ Prefix(resp[p].stdout, MAX_OUTPUT) = Prefix(raw[p].stdout, MAX_OUTPUT)
           /\ Prefix(resp[p].stderr, MAX_OUTPUT) = Prefix(raw[p].stderr, MAX_OUTPUT)

(* C6 witness: one run classified by the marker text alone, one passed     *)
(* through.                                                                *)
C6_Witness ==
  \E p, q \in Procs :
    /\ Ran(p) /\ raw[p].rc = 1 /\ MarkerInStderr[raw[p]]
    /\ IsTimeoutResp(resp[p])
    /\ Ran(q) /\ resp[q].kind = "result" /\ resp[q].exit_code = 1

(* C7: a program that ends on its own with a non-zero status before the    *)
(* inner limit gets a result with that status and its stderr verbatim (up  *)
(* to truncation), never the timeout message.                              *)
C7_CrashIsNotTimeout ==
  \A p \in Procs :
    (Ran(p) /\ cause[p] = "program" /\ raw[p].rc # 0) =>
      /\ ~IsTimeoutResp(resp[p])
      /\ resp[p].kind = "result"
      /\ resp[p].exit_code = raw[p].rc
      /\ Prefix(resp[p].stderr, MAX_OUTPUT) = Prefix(raw[p].stderr, MAX_OUTPUT)

(* C8: a launch failure (no client, or the engine cannot start the         *)
(* container) is answered with a server-side error, never with the timeout *)
(* message and never with a stdout/stderr/exit_code result.                *)
C8_LaunchFailureIsServerError ==
  \A p \in Procs :
    (Returned(p) /\ cause[p] \in {"no_client", "engine_error"}) =>
      /\ resp[p].status = 500
      /\ resp[p].kind # "result"
      /\ ~IsTimeoutResp(resp[p])

(* C9: in a result, a stream longer than the ceiling is returned as its    *)
(* first 10000 characters followed by the marker, so its length is the     *)
(* ceiling plus the marker's length, whatever the length written.          *)
C9_TruncatedToCeiling ==
  \A p \in Procs :
    (Returned(p) /\ resp[p].kind = "result") =>
      /\ Len(raw[p].stdout) > 10000 =>
           /\ resp[p].stdout = SubSeq(raw[p].stdout, 1, 10000) \o "\n... (truncated)\n"
           /\ Len(resp[p].stdout) = 10000 + 17
      /\ Len(raw[p].stderr) > 10000 =>
           /\ resp[p].stderr = SubSeq(raw[p].stderr, 1, 10000) \o "\n... (truncated)\n"
           /\ Len(resp[p].stderr) = 10000 + 17

(* C9 witness: results with a truncated stdout and a truncated stderr, of  *)
(* different lengths written.                                              *)
C9_Witness ==
  \E p, q \in Procs :
    /\ Returned(p) /\ resp[p].kind = "result" /\ Len(raw[p].stdout) = 10001
    /\ Returned(q) /\ resp[q].kind = "result" /\ Len(raw[q].stderr) = 10002

(* C10: whether a stream of a result is cut depends on its own length      *)
(* alone, and a stream at or below the ceiling is returned unchanged, also *)
(* when the other one is cut.                                              *)
C10_IndependentStreams ==
  \A p \in Procs :
    (Returned(p) /\ resp[p].kind = "result") =>
      /\ (resp[p].stdout = raw[p].stdout) <=> (Len(raw[p].stdout) <= MAX_OUTPUT)
      /\ (resp[p].stderr = raw[p].stderr) <=> (Len(raw[p].stderr) <= MAX_OUTPUT)

(* C10 witness: stdout cut with stderr unchanged, and stdout at the        *)
(* ceiling unchanged with stderr cut.                                      *)
C10_Witness ==
  \E p, q \in Procs :
    /\ Returned(p) /\ resp[p].kind = "result"
    /\ resp[p].stdout # raw[p].stdout /\ resp[p].stderr = raw[p].stderr
    /\ Returned(q) /\ resp[q].kind = "result"
    /\ Len(raw[q].stdout) = MAX_OUTPUT /\ resp[q].stdout = raw[q].stdout
    /\ resp[q].stderr # raw[q].stderr

(* The cleanup of p ran (the result path was taken) and did not remove the *)
(* directory: os.remove or os.rmdir raised.                                *)
CleanupFailed(p) ==
  /\ Returned(p) /\ client[p] = "exited"
  /\ raw[p].rc # 124 /\ ~MarkerInStderr[raw[p]]
  /\ ~released[p]

(* C11: a failing removal of the file or the directory never reaches the   *)
(* caller and never changes the response: the call is answered 200 with a  *)
(* result, the same response as a call with the same outcome whose cleanup *)
(* succeeded.                                                              *)
C11_CleanupFailureSwallowed ==
  /\ \A p \in Procs :
       CleanupFailed(p) =>
         /\ resp[p].status = 200 /\ resp[p].kind = "result"
         /\ resp[p].exit_code = raw[p].rc
  /\ \A p, q \in Procs :
       (CleanupFailed(p) /\ Returned(q) /\ released[q] /\ raw[q] = raw[p]) =>
         resp[p] = resp[q]

(* C11 witness: the same outcome answered twice, once with the directory   *)
(* left behind because os.rmdir failed, once with it removed.              *)
C11_Witness ==
  \E p, q \in Procs :
    /\ CleanupFailed(p) /\ workdir[p] \in junk /\ workdir[p] \in dirs
    /\ Returned(q) /\ released[q] /\ raw[q] = raw[p]
    /\ resp[p] = resp[q] /\ resp[p].kind = "result"

(* The -v arguments of a docker command, and the parts of one. *)
VolumeArgs(cmd) == { cmd[i] : i \in { j \in 2 .. Len(cmd) : cmd[j - 1] = "-v" } }
FirstColon(a) ==
  CHOOSE i \in 1 .. Len(a) :
    /\ SubSeq(a, i, i) = ":"
    /\ \A j \in 1 .. (i - 1) : SubSeq(a, j, j) # ":"
HostPathOf(a) == SubSeq(a, 1, FirstColon(a) - 1)
IsReadOnlyArg(a) == Len(a) >= 3 /\ SubSeq(a, Len(a) - 2, Len(a)) = ":ro"

(* path is dir itself or lies below it. *)
IsAtOrUnder(path, dir) ==
  \/ path = dir
  \/ /\ Len(path) > Len(dir) + 1
     /\ SubSeq(path, 1, Len(dir) + 1) = dir \o "/"

(* C12: the program cannot write the submitted source: no writable mount   *)
(* of the command exposes script.py or a directory holding it, and while   *)
(* the container runs script.py stays on disk with the submitted text.     *)
C12_SourceNotWritable ==
  \A p \in Procs :
    /\ \A a \in VolumeArgs(launched[p].cmd) :
         ~IsReadOnlyArg(a) =>
           ~IsAtOrUnder(ScriptPath(workdir[p]), HostPathOf(a))
    /\ container[p] = "running" =>
         script[workdir[p]] = [exists |-> TRUE, text |-> CodeOf(req[p]).text]

(* The argument that follows a flag of the command. *)
ArgAfter(cmd, flag) ==
  cmd[(CHOOSE i \in 1 .. (Len(cmd) - 1) : cmd[i] = flag) + 1]

(* A -v argument without its host path: the in-container path and mode. *)
ContainerSideOf(a) == SubSeq(a, FirstColon(a), Len(a))

(* The policy of a command: everything but the host paths of its mounts. *)
PolicyOf(cmd) ==
  [i \in 1 .. Len(cmd) |->
     IF i > 1 /\ cmd[i - 1] = "-v" THEN ContainerSideOf(cmd[i]) ELSE cmd[i]]

Launched(p) == launched[p] # NoLaunch

(* C13: any two accepted requests are launched under the same policy       *)
(* (image, inner timeout, memory, pids, cpus, network, read-only root,     *)
(* auto-remove, mount targets and modes, outer timeout), whatever their    *)
(* source text.                                                            *)
C13_PolicyIndependentOfSource ==
  \A p, q \in Procs :
    (p # q /\ Launched(p) /\ Launched(q)) =>
      /\ PolicyOf(launched[p].cmd) = PolicyOf(launched[q].cmd)
      /\ launched[p].timeout = launched[q].timeout

(* C13 witness: two requests with different source texts, both launched,   *)
(* in different directories.                                               *)
C13_Witness ==
  \E p, q \in Procs :
    /\ Launched(p) /\ Launched(q)
    /\ CodeOf(req[p]).text # CodeOf(req[q]).text
    /\ workdir[p] # workdir[q]
    /\ ArgAfter(launched[p].cmd, "--network") = "none"
    /\ PolicyOf(launched[p].cmd) = PolicyOf(launched[q].cmd)

(* C14: every timeout outcome, from the inner or the outer timeout, is     *)
(* answered 200 with an error message that cites the seconds given to the  *)
(* in-container timeout wrapper, never with a failure status.              *)
C14_TimeoutIsSuccessResponse ==
  \A p \in Procs :
    (Returned(p) /\ cause[p] \in {"inner_timeout", "outer_timeout"}) =>
      /\ resp[p].status = 200
      /\ resp[p].kind = "error"
      /\ resp[p].error =
           "Execution timed out after "
             \o ArgAfter(launched[p].cmd, "timeout") \o " seconds."

(* C14 witness: one call ended by the inner timeout and one by the outer,  *)
(* both answered with the message citing 10 seconds.                       *)
C14_Witness ==
  \E p, q \in Procs :
    /\ Returned(p) /\ cause[p] = "inner_timeout"
    /\ Returned(q) /\ cause[q] = "outer_timeout"
    /\ resp[p].error = "Execution timed out after 10 seconds."
    /\ resp[q] = resp[p]

(* int(s) for a decimal string *)
DigitValue(c) == CHOOSE d \in 0 .. 9 : SubSeq("0123456789", d + 1, d + 1) = c
RECURSIVE StrToNat(_)
StrToNat(s) ==
  IF Len(s) = 0 THEN 0
  ELSE 10 * StrToNat(SubSeq(s, 1, Len(s) - 1))
         + DigitValue(SubSeq(s, Len(s), Len(s)))

(* C15: in every invocation the timeout given to subprocess.run is         *)
(* strictly greater than the seconds given to the in-container timeout     *)
(* wrapper.                                                                *)
C15_OuterExceedsInner ==
  \A p \in Procs :
    Launched(p) =>
      launched[p].timeout > StrToNat(ArgAfter(launched[p].cmd, "timeout"))

(* C15 witness: a program is running under an inner limit of 10 and an     *)
(* outer limit of 12 seconds.                                              *)
C15_Witness ==
  \E p \in Procs :
    /\ Launched(p) /\ container[p] = "running" /\ client[p] = "running"
    /\ StrToNat(ArgAfter(launched[p].cmd, "timeout")) = 10
    /\ launched[p].timeout = 12

(* The code field of the body is no string, is empty or absent, or is too  *)
(* long.                                                                   *)
FailsAChecks(r) == r.kind # "str" \/ Len(r.text) = 0 \/ Len(r.text) > MAX_CHARS

(* C16: a request whose code is no string, is empty or is longer than 5000 *)
(* characters is answered 400 with no workspace created and nothing        *)
(* launched; a workspace or a launch exists only for a request that passed *)
(* the three checks.                                                       *)
C16_RejectedBeforeAnyEffect ==
  \A p \in Procs :
    /\ (req[p] # NoRequest /\ FailsAChecks(req[p])) =>
         /\ Returned(p)
         /\ resp[p].status = 400 /\ resp[p].kind = "error"
         /\ workdir[p] = NoPath /\ nWorkdirs[p] = 0
         /\ ~Launched(p) /\ nLaunches[p] = 0
         /\ client[p] = "none" /\ container[p] = "none"
    /\ (workdir[p] # NoPath \/ nWorkdirs[p] > 0 \/ Launched(p) \/ nLaunches[p] > 0) =>
         (req[p] # NoRequest /\ ~FailsAChecks(req[p]))

(* C16 witness: a too long code rejected, next to a request that reached   *)
(* its launch.                                                             *)
C16_Witness ==
  \E p, q \in Procs :
    /\ Returned(p) /\ req[p].kind = "str" /\ Len(req[p].text) = MAX_CHARS + 1
    /\ resp[p].status = 400 /\ workdir[p] = NoPath
    /\ Launched(q) /\ workdir[q] \in dirs

(* C17: when the command is launched the directory exists and script.py    *)
(* holds the whole submitted text; and while the container of a call runs, *)
(* the cleanup of that call has not removed its directory.                 *)
C17_StepsOrdered ==
  \A p \in Procs :
    /\ (Launched(p) /\ pc[p] = "waiting" /\ container[p] = "none") =>
         /\ workdir[p] \in dirs
         /\ script[workdir[p]] = [exists |-> TRUE, text |-> CodeOf(req[p]).text]
    /\ container[p] = "running" =>
         (workdir[p] \in dirs /\ ~released[p])

(* C17 witness: one call launched with its script in place, one call       *)
(* returned after the outer timeout with its container still running and   *)
(* its directory still there.                                              *)
C17_Witness ==
  \E p, q \in Procs :
    /\ Launched(p) /\ pc[p] = "waiting" /\ container[p] = "none"
    /\ script[workdir[p]].exists
    /\ Returned(q) /\ container[q] = "running" /\ workdir[q] \in dirs

====
